---- MODULE Spec2Model ----
(***************************************************************************)
(* dash-media-backup-tool.py: the download engine (download_one, main),    *)
(* the item registry (ensure_relpath_from_url, add_item) and the manifest  *)
(* resolver (collect_items, parse_segment_list, parse_segment_template).   *)
(***************************************************************************)
EXTENDS Integers, Sequences, FiniteSets, TLC

\* ------------------------------------------------------------------------
\* Bounds of the model
\* ------------------------------------------------------------------------
\* --retry is drawn from 0..MaxRetries
MaxRetries == 1
\* an endpoint fails at most MaxFail attempts of one item before it succeeds
MaxFail == 2
\* a response body is streamed in BodyChunks chunks
BodyChunks == 2

\* ------------------------------------------------------------------------
\* The download engine's state
\* ------------------------------------------------------------------------
VARIABLES
    items,        \* the work list: a sequence of DownloadItem (url, relpath)
    retries,      \* args.retry
    only_domain,  \* args.only_domain ("" stands for None)
    concurrency,  \* args.concurrency
    pc,           \* where each download_one call stands
    attempt,      \* download_one's local `attempt`
    netAttempts,  \* requests.get calls made for each item
    nFail,        \* failed attempts the endpoint has served for each item
    doomed,       \* the response being streamed breaks mid-stream
    handle,       \* the open file object f: its inode and its position
    exc,          \* the exception last caught (or raised) by each call
    lastFailure,  \* the failure the endpoint last served for each item
    touched,      \* the calls that have made a file-system call
    pre,          \* a download of items[1] completed by an earlier run is on disk
    result,       \* download_one's return value
    names,        \* the directory tree under outdir: path -> node
    inodes,       \* the content of every file, by inode number
    collected,    \* futures main has taken from as_completed
    ok,           \* main's counters
    fail,
    runState      \* main: "running", "done" (summary printed) or "crashed"

dlVars == <<items, retries, only_domain, concurrency, pc, attempt, netAttempts,
            nFail, doomed, handle, exc, lastFailure, touched, pre, result, names,
            inodes, collected, ok, fail, runState>>

\* ------------------------------------------------------------------------
\* The manifest resolver's state (collect_items)
\* ------------------------------------------------------------------------
VARIABLES
    manifest,     \* the parsed MPD tree
    args,         \* args.filter_repr_id and args.filter_mime
    countEnv,     \* os.getenv("DASH_SEGMENT_COUNT"): <<>> when unset, else <<n>>
    triples,      \* effective_base_urls_hierarchy(root, base_url)
    idx,          \* the position of collect_items' loop in triples
    rpc,          \* where collect_items stands
    registry,     \* the dict `items`, in insertion order
    log           \* per selected pair, the URLs each step passed to add_item

rsVars == <<manifest, args, countEnv, triples, idx, rpc, registry, log>>

\* ------------------------------------------------------------------------
\* Timeline expansion on its own (parse_segment_template, lines 190-203)
\* ------------------------------------------------------------------------
VARIABLES
    tlEntries,    \* the <S> elements of a SegmentTimeline
    tlTimes,      \* the times passed to expand_media_template, in order
    tlDone

tlVars == <<tlEntries, tlTimes, tlDone>>

vars == <<dlVars, rsVars, tlVars>>

\* ------------------------------------------------------------------------
\* URLs.  A URL is kept as urlparse splits it: netloc (host text and port),
\* path (the segments after the leading "/") and query.
\* ------------------------------------------------------------------------
Url(host, port, path, query) ==
    [host |-> host, port |-> port, path |-> path, query |-> query]

\* str.lower() on the host names of the model
Lower(s) == CASE s = "H1" -> "h1" [] s = "H2" -> "h2" [] OTHER -> s

\* urlparse(url).hostname: the host without its port, lower-cased
Hostname(url) == Lower(url.host)

\* urllib.parse.quote_plus on the query strings of the model
quote_plus(q) == CASE q = "a=1" -> "a%3D1" [] OTHER -> q

RECURSIVE lstrip(_)
\* p.path.lstrip('/'): the leading empty segments go
lstrip(path) ==
    IF path # <<>> /\ Head(path) = "" THEN lstrip(Tail(path)) ELSE path

Front(s) == SubSeq(s, 1, Len(s) - 1)

\* os.path.join(rel, name) for a name that is not absolute
path_join(rel, name) ==
    IF rel = <<>> THEN <<name>>
    ELSE IF rel[Len(rel)] = "" THEN Front(rel) \o <<name>>
    ELSE rel \o <<name>>

ensure_relpath_from_url(url) ==
    LET rel == lstrip(url.path)
    IN  IF url.query # "" THEN path_join(rel, quote_plus(url.query)) ELSE rel

DownloadItem(url) == [url |-> url, relpath |-> ensure_relpath_from_url(url)]

\* ------------------------------------------------------------------------
\* The items the engine is run on
\* ------------------------------------------------------------------------
uA == Url("h1", "", <<"a", "x">>, "")
uB == Url("h2", "", <<"a", "x">>, "")
uC == Url("h1", "", <<"a", "x", "q">>, "")
uD == Url("h1", "", <<"a", "x">>, "q")
uE == Url("H1", "8080", <<"a", "x.part">>, "")
uF == Url("h1", "", <<"b", "y">>, "")

ItemLists ==
    { <<uA>>, <<uB>>, <<uD>>, <<uE>>,
      <<uA, uF>>, <<uF, uB>>, <<uA, uB>>, <<uA, uC>>, <<uC, uA>>,
      <<uD, uC>>, <<uE, uA>>, <<uA, uE>> }

ConcurrencyChoices == {1, 2}
DomainChoices == {"", "h1"}

Tasks == 1..Len(items)

\* ------------------------------------------------------------------------
\* The file system under outdir
\* ------------------------------------------------------------------------
Absent == [kind |-> "absent"]
Dir == [kind |-> "dir"]
File(ino) == [kind |-> "file", ino |-> ino]

Prefixes(p) == { SubSeq(p, 1, k) : k \in 1..Len(p) }

\* dest = os.path.join(outdir, item.relpath), relative to outdir
Dest(i) == items[i].relpath

\* tmp = dest + ".part"
TmpPath_InPlace(dest) == dest
TmpPath(dest) == Front(dest) \o <<dest[Len(dest)] \o ".part">>

Tmp(i) == TmpPath(Dest(i))

PathsOf(its) ==
    UNION { Prefixes(its[i].relpath) \cup Prefixes(TmpPath(its[i].relpath))
            \cup Prefixes(TmpPath_InPlace(its[i].relpath)) : i \in DOMAIN its }

\* chunk k of the body the endpoint serves for item i; source 0 is the body
\* of a download completed by an earlier run
Body(i) == [k \in 1..BodyChunks |-> <<i, k>>]
OldBody == [k \in 1..BodyChunks |-> <<0, k>>]
Hole == <<0, 0>>

\* f.write(chunk) at the file position pos (1-based); a write past the end
\* of a file another handle truncated leaves a hole
WriteAt(content, pos, chunk) ==
    [k \in 1..(IF pos > Len(content) THEN pos ELSE Len(content)) |->
        IF k = pos THEN chunk
        ELSE IF k <= Len(content) THEN content[k] ELSE Hole]

NoHandle == [ino |-> 0, pos |-> 0]
NoResult == [url |-> "", success |-> FALSE, err |-> "pending"]

\* ------------------------------------------------------------------------
\* Init: main has parsed its arguments, resolved the items and created
\* outdir; every future is submitted and none has started.
\* ------------------------------------------------------------------------
InitFs(its, old) ==
    [p \in PathsOf(its) |->
        IF old /\ p = its[1].relpath THEN File(1)
        ELSE IF old /\ p \in Prefixes(its[1].relpath) THEN Dir
        ELSE Absent]

RsIdle ==
    /\ manifest = <<>>
    /\ args = <<>>
    /\ countEnv = <<>>
    /\ triples = <<>>
    /\ idx = 0
    /\ rpc = "idle"
    /\ registry = <<>>
    /\ log = <<>>

TlIdle ==
    /\ tlEntries = <<>>
    /\ tlTimes = <<>>
    /\ tlDone = FALSE

Init ==
    /\ RsIdle
    /\ TlIdle
    /\ \E l \in ItemLists : items = [i \in DOMAIN l |-> DownloadItem(l[i])]
    /\ retries \in 0..MaxRetries
    /\ only_domain \in DomainChoices
    /\ concurrency \in ConcurrencyChoices
    /\ pc = [i \in Tasks |-> "queued"]
    /\ attempt = [i \in Tasks |-> 0]
    /\ netAttempts = [i \in Tasks |-> 0]
    /\ nFail = [i \in Tasks |-> 0]
    /\ doomed = [i \in Tasks |-> FALSE]
    /\ handle = [i \in Tasks |-> NoHandle]
    /\ exc = [i \in Tasks |-> ""]
    /\ result = [i \in Tasks |-> NoResult]
    /\ lastFailure = [i \in Tasks |-> ""]
    /\ touched = {}
    /\ pre \in BOOLEAN
    /\ names = InitFs(items, pre)
    /\ inodes = IF pre THEN <<OldBody>> ELSE <<>>
    /\ collected = {}
    /\ ok = 0
    /\ fail = 0
    /\ runState = "running"

\* ------------------------------------------------------------------------
\* download_one
\* ------------------------------------------------------------------------
check_domain_NoGate(url, od) == TRUE
check_domain(url, od) ==
    IF od = "" THEN TRUE ELSE Hostname(url) = od

InFlight == { i \in Tasks : pc[i] \notin {"queued", "returned", "raised"} }

\* the while loop's exit test in the except branch: attempt > retries
RetriesExhausted_OffByOne(a, r) == a >= r
RetriesExhausted(a, r) == a > r

\* except Exception as e: count the attempt, give up or go round again
\* (the sleep between attempts changes no state)
Except(i, e) ==
    /\ exc' = [exc EXCEPT ![i] = e]
    /\ attempt' = [attempt EXCEPT ![i] = @ + 1]
    /\ IF RetriesExhausted(attempt[i] + 1, retries)
       THEN /\ result' = [result EXCEPT ![i] =
                    [url |-> items[i].url, success |-> FALSE, err |-> e]]
            /\ pc' = [pc EXCEPT ![i] = "returned"]
       ELSE /\ pc' = [pc EXCEPT ![i] = "request"]
            /\ UNCHANGED result

\* a pool thread takes the next future off the queue and enters download_one:
\* the domain gate
Start(i) ==
    /\ pc[i] = "queued"
    /\ \A j \in 1..(i - 1) : pc[j] # "queued"
    /\ Cardinality(InFlight) < concurrency
    /\ IF ~check_domain(items[i].url, only_domain)
       THEN /\ result' = [result EXCEPT ![i] =
                    [url |-> items[i].url, success |-> FALSE, err |-> "wrong domain"]]
            /\ pc' = [pc EXCEPT ![i] = "returned"]
       ELSE /\ pc' = [pc EXCEPT ![i] = "makedirs"]
            /\ UNCHANGED result
    /\ UNCHANGED <<rsVars, tlVars, items, retries, only_domain, concurrency, attempt, netAttempts,
                   nFail, doomed, handle, exc, lastFailure, touched, pre, names,
                   inodes, collected, ok, fail, runState>>

\* os.makedirs(os.path.dirname(dest), exist_ok=True), outside the try block:
\* a file in the way raises out of download_one
Makedirs(i) ==
    /\ pc[i] = "makedirs"
    /\ touched' = touched \cup {i}
    /\ LET parents == Prefixes(Front(Dest(i)))
       IN  IF \E p \in parents : names[p].kind = "file"
           THEN /\ pc' = [pc EXCEPT ![i] = "raised"]
                /\ exc' = [exc EXCEPT ![i] = "FileExistsError"]
                /\ UNCHANGED names
           ELSE /\ pc' = [pc EXCEPT ![i] = "request"]
                /\ names' = [p \in DOMAIN names |->
                                IF p \in parents THEN Dir ELSE names[p]]
                /\ UNCHANGED exc
    /\ UNCHANGED <<rsVars, tlVars, items, retries, only_domain, concurrency, attempt, netAttempts,
                   nFail, doomed, handle, lastFailure, pre, result, inodes,
                   collected, ok, fail, runState>>

\* requests.get(...) and r.raise_for_status(): the endpoint answers
Request(i) ==
    /\ pc[i] = "request"
    /\ attempt[i] <= retries
    /\ netAttempts' = [netAttempts EXCEPT ![i] = @ + 1]
    /\ \/ \* a non-success status, or no answer in time
          /\ nFail[i] < MaxFail
          /\ nFail' = [nFail EXCEPT ![i] = @ + 1]
          /\ \E e \in {"HTTPError", "Timeout"} :
                /\ Except(i, e)
                /\ lastFailure' = [lastFailure EXCEPT ![i] = e]
          /\ UNCHANGED doomed
       \/ \* a success status whose body breaks off mid-stream
          /\ nFail[i] < MaxFail
          /\ nFail' = [nFail EXCEPT ![i] = @ + 1]
          /\ doomed' = [doomed EXCEPT ![i] = TRUE]
          /\ lastFailure' = [lastFailure EXCEPT ![i] = "ConnectionError"]
          /\ pc' = [pc EXCEPT ![i] = "open"]
          /\ UNCHANGED <<exc, attempt, result>>
       \/ \* a success status and a whole body
          /\ doomed' = [doomed EXCEPT ![i] = FALSE]
          /\ pc' = [pc EXCEPT ![i] = "open"]
          /\ UNCHANGED <<exc, attempt, result, nFail, lastFailure>>
    /\ UNCHANGED <<rsVars, tlVars, items, retries, only_domain, concurrency, handle, touched, pre,
                   names, inodes, collected, ok, fail, runState>>

\* open(tmp, "wb"): create the file or truncate the one that is there
Open(i) ==
    /\ pc[i] = "open"
    /\ LET n == names[Tmp(i)]
       IN  CASE n.kind = "dir" ->
                  /\ Except(i, "IsADirectoryError")
                  /\ UNCHANGED <<names, inodes, handle>>
             [] n.kind = "file" ->
                  /\ inodes' = [inodes EXCEPT ![n.ino] = <<>>]
                  /\ handle' = [handle EXCEPT ![i] = [ino |-> n.ino, pos |-> 0]]
                  /\ pc' = [pc EXCEPT ![i] = "stream"]
                  /\ UNCHANGED <<names, exc, attempt, result>>
             [] OTHER ->
                  /\ inodes' = Append(inodes, <<>>)
                  /\ names' = [names EXCEPT ![Tmp(i)] = File(Len(inodes) + 1)]
                  /\ handle' = [handle EXCEPT ![i] =
                                    [ino |-> Len(inodes) + 1, pos |-> 0]]
                  /\ pc' = [pc EXCEPT ![i] = "stream"]
                  /\ UNCHANGED <<exc, attempt, result>>
    /\ UNCHANGED <<rsVars, tlVars, items, retries, only_domain, concurrency, netAttempts, nFail,
                   doomed, lastFailure, touched, pre, collected, ok, fail, runState>>

\* for chunk in r.iter_content(...): f.write(chunk); a doomed response raises
\* after its first chunk, and the with block closes f either way
Stream(i) ==
    /\ pc[i] = "stream"
    /\ LET h == handle[i]
       IN  IF doomed[i] /\ h.pos >= 1
           THEN /\ Except(i, "ConnectionError")
                /\ handle' = [handle EXCEPT ![i] = NoHandle]
                /\ UNCHANGED inodes
           ELSE /\ inodes' = [inodes EXCEPT ![h.ino] =
                                 WriteAt(@, h.pos + 1, <<i, h.pos + 1>>)]
                /\ IF h.pos + 1 = BodyChunks
                   THEN /\ handle' = [handle EXCEPT ![i] = NoHandle]
                        /\ pc' = [pc EXCEPT ![i] = "replace"]
                   ELSE /\ handle' = [handle EXCEPT ![i].pos = @ + 1]
                        /\ UNCHANGED pc
                /\ UNCHANGED <<exc, attempt, result>>
    /\ UNCHANGED <<rsVars, tlVars, items, retries, only_domain, concurrency, netAttempts, nFail,
                   doomed, lastFailure, touched, pre, names, collected, ok, fail,
                   runState>>

\* os.replace(tmp, dest), then return (item.url, True, None)
Replace(i) ==
    /\ pc[i] = "replace"
    /\ CASE names[Tmp(i)].kind # "file" ->
              /\ Except(i, "FileNotFoundError")
              /\ UNCHANGED names
         [] names[Dest(i)].kind = "dir" ->
              /\ Except(i, "IsADirectoryError")
              /\ UNCHANGED names
         [] OTHER ->
              /\ names' = [p \in DOMAIN names |->
                              IF p = Dest(i) THEN names[Tmp(i)]
                              ELSE IF p = Tmp(i) THEN Absent
                              ELSE names[p]]
              /\ result' = [result EXCEPT ![i] =
                      [url |-> items[i].url, success |-> TRUE, err |-> "None"]]
              /\ pc' = [pc EXCEPT ![i] = "returned"]
              /\ UNCHANGED <<exc, attempt>>
    /\ UNCHANGED <<rsVars, tlVars, items, retries, only_domain, concurrency, netAttempts, nFail,
                   doomed, handle, lastFailure, touched, pre, inodes, collected, ok,
                   fail, runState>>

\* ------------------------------------------------------------------------
\* main: the as_completed loop and the summary
\* ------------------------------------------------------------------------
\* url, success, err = f.result(): an exception raised in download_one is
\* raised again here, and nothing in main catches it
Collect(i) ==
    /\ runState = "running"
    /\ i \notin collected
    /\ pc[i] \in {"returned", "raised"}
    /\ collected' = collected \cup {i}
    /\ IF pc[i] = "raised"
       THEN runState' = "crashed" /\ UNCHANGED <<ok, fail>>
       ELSE /\ IF result[i].success
               THEN ok' = ok + 1 /\ UNCHANGED fail
               ELSE fail' = fail + 1 /\ UNCHANGED ok
            /\ UNCHANGED runState
    /\ UNCHANGED <<rsVars, tlVars, items, retries, only_domain, concurrency, pc, attempt,
                   netAttempts, nFail, doomed, handle, exc, lastFailure, touched, pre,
                   result, names, inodes>>

\* print(f"Done. Success: {ok}, Failed: {fail}. ...")
Summary ==
    /\ runState = "running"
    /\ collected = Tasks
    /\ runState' = "done"
    /\ UNCHANGED <<rsVars, tlVars, items, retries, only_domain, concurrency, pc, attempt,
                   netAttempts, nFail, doomed, handle, exc, lastFailure, touched, pre,
                   result, names, inodes, collected, ok, fail>>

Next ==
    \/ \E i \in Tasks : Start(i)
    \/ \E i \in Tasks : Makedirs(i)
    \/ \E i \in Tasks : Request(i)
    \/ \E i \in Tasks : Open(i)
    \/ \E i \in Tasks : Stream(i)
    \/ \E i \in Tasks : Replace(i)
    \/ \E i \in Tasks : Collect(i)
    \/ Summary

Spec == Init /\ [][Next]_vars

\* ------------------------------------------------------------------------
\* Properties of the download engine
\* ------------------------------------------------------------------------
FilePaths(i) == {Dest(i), Tmp(i)}
DirPaths(i) == Prefixes(Front(Dest(i)))

\* no other item of the list names a path this item's call reads or writes
Solo(i) ==
    \A j \in Tasks \ {i} :
        /\ FilePaths(i) \cap (FilePaths(j) \cup DirPaths(j)) = {}
        /\ DirPaths(i) \cap FilePaths(j) = {}

PassesGate(i) == only_domain = "" \/ Hostname(items[i].url) = only_domain

Returned(i) == pc[i] = "returned"

\* C1: retries R >= 0, an endpoint whose first N attempts fail (nFail counts
\* them as they are served; the endpoint's N is nFail when a success follows
\* and exceeds R when none does).  A returned call either succeeded after
\* exactly N+1 requests with N <= R, or failed after exactly R+1 requests, all
\* of them failed, carrying the last failure's description.
C1_RetryOutcome ==
    \A i \in Tasks :
        (Returned(i) /\ PassesGate(i) /\ Solo(i)) =>
            IF result[i].success
            THEN nFail[i] <= retries /\ netAttempts[i] = nFail[i] + 1
            ELSE /\ nFail[i] = retries + 1
                 /\ netAttempts[i] = retries + 1
                 /\ result[i].err = lastFailure[i]

C1_Witness ==
    \E i, j \in Tasks :
        /\ Solo(i) /\ Returned(i) /\ result[i].success /\ nFail[i] >= 1
        /\ Solo(j) /\ Returned(j) /\ ~result[j].success
        /\ PassesGate(j) /\ netAttempts[j] = retries + 1 /\ retries >= 1

DestAsBefore(i) ==
    IF pre /\ i = 1
    THEN names[Dest(i)].kind = "file" /\ inodes[names[Dest(i)].ino] = OldBody
    ELSE names[Dest(i)] = Absent

\* C2: at every moment of a download_one call, and after it, the file at the
\* final path is what it was before the call (absent, or the earlier
\* download) until the call succeeds, and from then on the complete body of
\* the response; failed and interrupted attempts leave it alone.
C2_FinalPathAtomic ==
    \A i \in Tasks :
        Solo(i) =>
            IF Returned(i) /\ result[i].success
            THEN /\ names[Dest(i)].kind = "file"
                 /\ inodes[names[Dest(i)].ino] = Body(i)
            ELSE DestAsBefore(i)

C2_Witness ==
    \E i \in Tasks :
        /\ Solo(i) /\ Returned(i) /\ ~result[i].success
        /\ result[i].err = "ConnectionError"
        /\ names[Tmp(i)].kind = "file"
        /\ Len(inodes[names[Tmp(i)].ino]) = 1
        /\ pre /\ i = 1 /\ DestAsBefore(i)

\* C3: no failure while one item is processed ends the run: download_one
\* never raises, main never crashes, and the summary counts every item.
C3_OneResultPerItem ==
    /\ \A i \in Tasks : pc[i] # "raised"
    /\ runState # "crashed"
    /\ runState = "done" => ok + fail = Len(items)

\* C4: with a domain configured, an item on another host is reported failed
\* with "wrong domain", no request is made for it and its call makes no
\* file-system call; with none configured no item is refused.
C4_DomainGate ==
    \A i \in Tasks :
        /\ (only_domain # "" /\ Hostname(items[i].url) # only_domain) =>
              /\ netAttempts[i] = 0
              /\ i \notin touched
              /\ pc[i] \in {"queued", "returned"}
              /\ Returned(i) =>
                    result[i] = [url |-> items[i].url, success |-> FALSE,
                                 err |-> "wrong domain"]
        /\ only_domain = "" => result[i].err # "wrong domain"

C4_Witness ==
    \E i, j \in Tasks :
        /\ only_domain = "h1"
        /\ Hostname(items[i].url) = "h2"
        /\ Returned(i) /\ result[i].err = "wrong domain"
        /\ Returned(j) /\ result[j].success

CompleteBodies == {OldBody} \cup { Body(i) : i \in Tasks }

\* C10: no two fetch tasks in flight write to the same temporary file or
\* rename onto the same final file, and what lies at a final path is one
\* complete response.
C10_NoSharedFiles ==
    /\ \A i, j \in Tasks :
          (i # j /\ pc[i] = "stream" /\ pc[j] = "stream") =>
              handle[i].ino # handle[j].ino
    /\ \A i, j \in Tasks :
          (i # j /\ Returned(i) /\ result[i].success
                 /\ Returned(j) /\ result[j].success) => Dest(i) # Dest(j)
    /\ \A i \in Tasks :
          (names[Dest(i)].kind = "file" /\ Returned(i) /\ result[i].success) =>
              inodes[names[Dest(i)].ino] \in CompleteBodies

\* ------------------------------------------------------------------------
\* The engine at rest, for the specifications of the resolver
\* ------------------------------------------------------------------------
DlIdle ==
    /\ items = <<>>
    /\ retries = 0
    /\ only_domain = ""
    /\ concurrency = 0
    /\ pc = <<>>
    /\ attempt = <<>>
    /\ netAttempts = <<>>
    /\ nFail = <<>>
    /\ doomed = <<>>
    /\ handle = <<>>
    /\ exc = <<>>
    /\ lastFailure = <<>>
    /\ touched = {}
    /\ pre = FALSE
    /\ result = <<>>
    /\ names = <<>>
    /\ inodes = <<>>
    /\ collected = {}
    /\ ok = 0
    /\ fail = 0
    /\ runState = "idle"

\* ------------------------------------------------------------------------
\* parse_segment_template: the SegmentTimeline loop
\* ------------------------------------------------------------------------
\* An <S> element: t, d and r are <<>> when the attribute is absent, <<n>>
\* when it is present.
SElem(t, d, r) == [t |-> t, d |-> d, r |-> r]

\* r = int(s.get('r') or '0')
RepeatOf(s) == IF s.r = <<>> THEN 0 ELSE s.r[1]

\* for _ in range(r + 1)
Emissions_NoPlusOne(s) == RepeatOf(s)
Emissions(s) == RepeatOf(s) + 1

\* if t is not None: current_time = int(t) / elif current_time is None: 0
\* (cur is <<>> while current_time is None)
StartTime(s, cur) ==
    IF s.t # <<>> THEN s.t[1] ELSE IF cur = <<>> THEN 0 ELSE cur[1]

\* if d is not None: current_time += int(d)
Advance(cur, s) == IF s.d # <<>> THEN cur + s.d[1] ELSE cur

RECURSIVE EmitRun(_, _, _)
\* the inner loop: n emissions at the cursor, which advances after each
EmitRun(n, cur, s) ==
    IF n <= 0 THEN [times |-> <<>>, cur |-> cur]
    ELSE LET rest == EmitRun(n - 1, Advance(cur, s), s)
         IN  [times |-> <<cur>> \o rest.times, cur |-> rest.cur]

RECURSIVE TimelineTimes(_, _)
\* the outer loop over timeline.findall('mpd:S')
TimelineTimes(entries, cur) ==
    IF entries = <<>> THEN <<>>
    ELSE LET s == Head(entries)
             run == EmitRun(Emissions(s), StartTime(s, cur), s)
         IN  run.times \o TimelineTimes(Tail(entries), <<run.cur>>)

\* ------------------------------------------------------------------------
\* The manifest: xml.etree elements
\* ------------------------------------------------------------------------
\* The text of a BaseURL, a sourceURL or a media attribute: '' (or nothing),
\* '/', a relative reference, or an absolute URL.
RefEmpty == [kind |-> "empty"]
RefRoot == [kind |-> "root"]
RefRel(path, query) == [kind |-> "rel", path |-> path, query |-> query]
RefAbs(url) == [kind |-> "abs", url |-> url]

\* elem.find(...) returning None
NoElem == [kind |-> "none"]

\* <SegmentList>: init is <<>> or <<sourceURL>> (an <Initialization> child),
\* segurls the media attribute of each <SegmentURL> child
SegmentList(init, segurls) ==
    [kind |-> "SegmentList", init |-> init, segurls |-> segurls]

\* <SegmentTemplate>: the patterns are token sequences (<<>>: no attribute),
\* startNumber is <<>> or <<n>>, timeline is <<>> or <<the <S> children>>
SegmentTemplate(init, media, startNumber, timeline) ==
    [kind |-> "SegmentTemplate", init |-> init, media |-> media,
     startNumber |-> startNumber, timeline |-> timeline]

Representation(id, bandwidth, mimeType, bases, sl, st) ==
    [id |-> id, bandwidth |-> bandwidth, mimeType |-> mimeType,
     bases |-> bases, sl |-> sl, st |-> st]

AdaptationSet(mimeType, bases, sl, st, reps) ==
    [mimeType |-> mimeType, bases |-> bases, sl |-> sl, st |-> st, reps |-> reps]

Period(bases, adps) == [bases |-> bases, adps |-> adps]

Mpd(bases, periods) == [bases |-> bases, periods |-> periods]

\* len(element): the number of child elements
NChildren(e) ==
    CASE e.kind = "SegmentList" -> Len(e.init) + Len(e.segurls)
      [] e.kind = "SegmentTemplate" -> Len(e.timeline)
      [] OTHER -> 0

\* bool(element) as `or` evaluates it: None is false, and so is an element
\* without children (xml.etree.ElementTree.Element.__bool__)
Truthy(e) == e.kind # "none" /\ NChildren(e) > 0

\* rep.find(tag) or adp.find(tag)
FindOr(repElem, adpElem) == IF Truthy(repElem) THEN repElem ELSE adpElem

\* ------------------------------------------------------------------------
\* URL resolution
\* ------------------------------------------------------------------------
\* urllib.parse.urljoin(base, part)
join_url(base, part) ==
    CASE part.kind = "empty" -> base
      [] part.kind = "abs" -> part.url
      [] part.kind = "root" -> Url(base.host, base.port, <<"">>, "")
      [] OTHER -> Url(base.host, base.port, Front(base.path) \o part.path,
                      part.query)

\* _clean_baseurl_text and get_all_baseurls: '' and '/' are dropped, and a
\* level with nothing left yields ['']
get_all_baseurls(elem) ==
    LET urls == SelectSeq(elem.bases, LAMBDA b : b.kind \notin {"empty", "root"})
    IN  IF urls = <<>> THEN <<RefEmpty>> ELSE urls

\* [join_url(p, b) for p in parents for b in get_all_baseurls(elem)]
JoinAll(parents, elem) ==
    LET refs == get_all_baseurls(elem)
    IN  [k \in 1..(Len(parents) * Len(refs)) |->
            join_url(parents[((k - 1) \div Len(refs)) + 1],
                     refs[((k - 1) % Len(refs)) + 1])]

RECURSIVE ConcatAll(_)
ConcatAll(ss) == IF ss = <<>> THEN <<>> ELSE Head(ss) \o ConcatAll(Tail(ss))

effective_base_urls_hierarchy(root, base) ==
    LET mpd_bases == JoinAll(<<base>>, root)
        OfRep(rep, adp, a_bases) ==
            LET r_bases == JoinAll(a_bases, rep)
            IN  [e \in 1..Len(r_bases) |->
                    [rep |-> rep, adp |-> adp, eff |-> r_bases[e]]]
        OfAdp(adp, p_bases) ==
            LET a_bases == JoinAll(p_bases, adp)
            IN  ConcatAll([r \in 1..Len(adp.reps) |->
                              OfRep(adp.reps[r], adp, a_bases)])
        OfPeriod(period) ==
            LET p_bases == JoinAll(mpd_bases, period)
            IN  ConcatAll([a \in 1..Len(period.adps) |->
                              OfAdp(period.adps[a], p_bases)])
    IN  ConcatAll([p \in 1..Len(root.periods) |-> OfPeriod(root.periods[p])])

\* str.lower() on the MIME types of the model
LowerMime(s) ==
    CASE s = "Video/MP4" -> "video/mp4" [] s = "Video" -> "video" [] OTHER -> s

StartsWith(s, prefix) ==
    Len(prefix) <= Len(s) /\ SubSeq(s, 1, Len(prefix)) = prefix

matches_filters(rep, adp, a) ==
    /\ ~(a.filter_repr_id # {} /\ rep.id \notin a.filter_repr_id)
    /\ a.filter_mime # {} =>
          LET mime == IF rep.mimeType # "" THEN rep.mimeType ELSE adp.mimeType
          IN  \E m \in a.filter_mime :
                  StartsWith(LowerMime(mime), LowerMime(m))

\* ------------------------------------------------------------------------
\* Template patterns
\* ------------------------------------------------------------------------
Lit(s) == [t |-> "lit", s |-> s, w |-> 0]
\* $Number$ (w = 0) or $Number%0wd$
NumberTok(w) == [t |-> "Number", s |-> "", w |-> w]
TimeTok == [t |-> "Time", s |-> "", w |-> 0]
RepIdTok == [t |-> "RepresentationID", s |-> "", w |-> 0]
BandwidthTok == [t |-> "Bandwidth", s |-> "", w |-> 0]

Uses(pat, tok) == \E k \in DOMAIN pat : pat[k].t = tok

RECURSIVE ZeroPad(_, _)
\* f"{number:0{w}d}": zeros on the left up to width w
ZeroPad(str, w) == IF Len(str) < w THEN ZeroPad("0" \o str, w) ELSE str

RECURSIVE Render(_, _, _, _)
\* the pattern with each token replaced; a <<>> number or time leaves the
\* token's own text
Render(pat, rep, number, time) ==
    IF pat = <<>> THEN ""
    ELSE LET tk == Head(pat)
             text ==
                CASE tk.t = "lit" -> tk.s
                  [] tk.t = "Number" ->
                        IF number = <<>>
                        THEN (IF tk.w = 0 THEN "$Number$"
                              ELSE "$Number%0" \o ToString(tk.w) \o "d$")
                        ELSE ZeroPad(ToString(number[1]), tk.w)
                  [] tk.t = "Time" ->
                        IF time = <<>> THEN "$Time$" ELSE ToString(time[1])
                  [] tk.t = "RepresentationID" -> rep.id
                  [] OTHER -> rep.bandwidth
         IN  text \o Render(Tail(pat), rep, number, time)

\* expand_media_template: raises when the pattern uses a value not given
expand_media_template(pat, rep, number, time) ==
    [raised |-> \/ (Uses(pat, "Number") /\ number = <<>>)
                \/ (Uses(pat, "Time") /\ time = <<>>),
     out |-> Render(pat, rep, number, time)]

initialize_url_pattern(pat, rep) == Render(pat, rep, <<>>, <<>>)

\* a file name as a relative reference
NameRef(name) == RefRel(<<name>>, "")

\* ------------------------------------------------------------------------
\* The registry
\* ------------------------------------------------------------------------
\* items[url] = DownloadItem(url, ensure_relpath_from_url(url)): a dict keeps
\* the place of a key it already holds
add_item(reg, url) ==
    IF \E k \in DOMAIN reg : reg[k].url = url
    THEN [k \in DOMAIN reg |->
            IF reg[k].url = url THEN DownloadItem(url) ELSE reg[k]]
    ELSE Append(reg, DownloadItem(url))

RECURSIVE AddAll(_, _)
AddAll(reg, urls) ==
    IF urls = <<>> THEN reg ELSE AddAll(add_item(reg, Head(urls)), Tail(urls))

\* ------------------------------------------------------------------------
\* parse_segment_list and parse_segment_template: the URLs each passes to
\* add_item, in order
\* ------------------------------------------------------------------------
parse_segment_list(rep, adp, base) ==
    LET sl == FindOr(rep.sl, adp.sl)
    IN  IF sl.kind = "none" THEN <<>>
        ELSE (IF sl.init # <<>> /\ sl.init[1].kind # "empty"
              THEN <<join_url(base, sl.init[1])>> ELSE <<>>)
             \o [k \in 1..Len(SelectSeq(sl.segurls,
                                         LAMBDA m : m.kind # "empty")) |->
                    join_url(base, SelectSeq(sl.segurls,
                                         LAMBDA m : m.kind # "empty")[k])]

\* the media URLs of a template: [raised, urls]
TemplateMedia(st, rep, base, env) ==
    LET start_number == IF st.startNumber = <<>> THEN 1 ELSE st.startNumber[1]
        Expand(number, time) == expand_media_template(st.media, rep, number, time)
    IN  IF st.timeline # <<>>
        THEN LET times == TimelineTimes(st.timeline[1], <<>>)
             IN  IF times # <<>> /\ Expand(<<>>, <<times[1]>>).raised
                 THEN [raised |-> TRUE, urls |-> <<>>]
                 ELSE [raised |-> FALSE,
                       urls |-> [k \in 1..Len(times) |->
                          join_url(base, NameRef(Expand(<<>>, <<times[k]>>).out))]]
        ELSE IF env = <<>>
             THEN [raised |-> TRUE, urls |-> <<>>]
             ELSE IF env[1] > 0 /\ Expand(<<start_number>>, <<>>).raised
                  THEN [raised |-> TRUE, urls |-> <<>>]
                  ELSE [raised |-> FALSE,
                        urls |-> [k \in 1..env[1] |->
                           join_url(base, NameRef(
                              Expand(<<start_number + k - 1>>, <<>>).out))]]

\* [raised, init, media]: init and media are the URLs registered
parse_segment_template(rep, adp, base, env) ==
    LET st == FindOr(rep.st, adp.st)
    IN  IF st.kind = "none"
        THEN [raised |-> FALSE, init |-> <<>>, media |-> <<>>]
        ELSE LET init == IF st.init # <<>>
                         THEN <<join_url(base,
                                  NameRef(initialize_url_pattern(st.init, rep)))>>
                         ELSE <<>>
             IN  IF st.media = <<>>
                 THEN [raised |-> FALSE, init |-> init, media |-> <<>>]
                 ELSE LET m == TemplateMedia(st, rep, base, env)
                      IN  [raised |-> m.raised, init |-> init, media |-> m.urls]

\* os.path.splitext(name)[1] is not empty: a dot after a character that is
\* not a dot
HasExt(name) ==
    \E k \in 2..Len(name) :
        /\ SubSeq(name, k, k) = "."
        /\ \E j \in 1..(k - 1) : SubSeq(name, j, j) # "."

\* os.path.splitext(urlparse(eff).path)[1]
PathHasExt(url) == url.path # <<>> /\ HasExt(url.path[Len(url.path)])

\* Bounds of the timelines expanded
MaxEntries == 2
MaxRepeat == 1

StartChoices == {<<>>, <<0>>, <<7>>}
DurationChoices == {<<>>, <<2>>, <<3>>}
RepeatChoices == {<<>>} \cup { <<r>> : r \in 0..MaxRepeat }

SElems ==
    { SElem(t, d, r) : t \in StartChoices, d \in DurationChoices,
                       r \in RepeatChoices }

Timelines == UNION { [1..n -> SElems] : n \in 0..MaxEntries }

\* the timeline of the specification's example: [{t:0,d:2,r:1}, {d:3,r:0}]
ExampleTimeline == <<SElem(<<0>>, <<2>>, <<1>>), SElem(<<>>, <<3>>, <<0>>)>>

InitTimeline ==
    /\ DlIdle
    /\ RsIdle
    /\ tlEntries \in Timelines
    /\ tlTimes = <<>>
    /\ tlDone = FALSE

ExpandTimeline ==
    /\ ~tlDone
    /\ tlTimes' = TimelineTimes(tlEntries, <<>>)
    /\ tlDone' = TRUE
    /\ UNCHANGED <<dlVars, rsVars, tlEntries>>

NextTimeline == ExpandTimeline

SpecTimeline == InitTimeline /\ [][NextTimeline]_vars

\* The expansion as the specification words it: entry k starts at its
\* declared start time, else (first entry) at 0, else where the cursor stands
\* after entry k-1, which is that entry's start plus one duration for each of
\* its repeatCount+1 emissions; its m-th emission is m-1 durations later.
DurationOf(s) == IF s.d = <<>> THEN 0 ELSE s.d[1]

RECURSIVE EntryStart(_, _)
EntryStart(entries, k) ==
    IF entries[k].t # <<>> THEN entries[k].t[1]
    ELSE IF k = 1 THEN 0
    ELSE EntryStart(entries, k - 1)
            + (RepeatOf(entries[k - 1]) + 1) * DurationOf(entries[k - 1])

EntryTimes(entries, k) ==
    [m \in 1..(RepeatOf(entries[k]) + 1) |->
        EntryStart(entries, k) + (m - 1) * DurationOf(entries[k])]

RECURSIVE ExpectedTimes(_, _)
ExpectedTimes(entries, k) ==
    IF k > Len(entries) THEN <<>>
    ELSE EntryTimes(entries, k) \o ExpectedTimes(entries, k + 1)

RECURSIVE TotalEmissions(_)
TotalEmissions(entries) ==
    IF entries = <<>> THEN 0
    ELSE RepeatOf(Head(entries)) + 1 + TotalEmissions(Tail(entries))

\* C8: the times emitted for a timeline are those of the rule above, their
\* number is the sum of repeatCount+1 over the entries, and the example
\* timeline [{t:0,d:2,r:1},{d:3,r:0}] emits [0, 2, 4].
C8_TimelineExpansion ==
    tlDone =>
        /\ tlTimes = ExpectedTimes(tlEntries, 1)
        /\ Len(tlTimes) = TotalEmissions(tlEntries)
        /\ tlEntries = ExampleTimeline => tlTimes = <<0, 2, 4>>

C8_Witness ==
    /\ tlDone
    /\ tlEntries = ExampleTimeline
    /\ tlTimes = <<0, 2, 4>>

\* ------------------------------------------------------------------------
\* The manifests resolved
\* ------------------------------------------------------------------------
\* DASH_SEGMENT_COUNT, when set, is drawn from 1..MaxCount
MaxCount == 2

ManifestUrl == Url("h1", "", <<"d", "manifest.mpd">>, "")

\* two mirrors of one directory
Mirrors ==
    << RefAbs(Url("h1", "", <<"v", "">>, "")),
       RefAbs(Url("h2", "", <<"v", "">>, "")) >>

MpdBaseChoices == { <<RefRoot>>, Mirrors }

RepList ==
    SegmentList(<<NameRef("init.mp4")>>,
                <<NameRef("s1.m4s"), RefRel(<<"s2.m4s">>, "a=1")>>)

\* <SegmentTemplate initialization="init-$RepresentationID$.mp4"
\*                  media="seg-$Number%03d$.m4s"/>
NumberTemplate ==
    SegmentTemplate(<<Lit("init-"), RepIdTok, Lit(".mp4")>>,
                    <<Lit("seg-"), NumberTok(3), Lit(".m4s")>>, <<>>, <<>>)

\* <SegmentTemplate media="adp-$Bandwidth$-$Number$.m4s" startNumber="5"/>
AdpTemplate ==
    SegmentTemplate(<<>>, <<Lit("adp-"), BandwidthTok, Lit("-"), NumberTok(0),
                            Lit(".m4s")>>, <<5>>, <<>>)

\* <SegmentTemplate media="t-$Time$.m4s"><SegmentTimeline>...
TimeTemplate ==
    SegmentTemplate(<<>>, <<Lit("t-"), TimeTok, Lit(".m4s")>>, <<>>,
                    <<ExampleTimeline>>)

RepChoices(id, bandwidth, mimeType) ==
    { Representation(id, bandwidth, mimeType, bases, sl, st) :
        bases \in { <<>>, <<NameRef(id \o ".mp4")>> },
        sl \in { NoElem, RepList },
        st \in { NoElem, NumberTemplate, TimeTemplate } }

RepLists ==
    { <<r1>> : r1 \in RepChoices("v1", "800", "") }
    \cup { <<r1, r2>> : r1 \in RepChoices("v1", "800", ""),
                        r2 \in RepChoices("a1", "64", "audio/mp4") }

Manifests ==
    { Mpd(bases, <<Period(<<>>, <<AdaptationSet("Video/MP4", <<>>, NoElem, st, reps)>>)>>) :
        bases \in MpdBaseChoices, st \in { NoElem, AdpTemplate }, reps \in RepLists }

ArgChoices ==
    { [filter_repr_id |-> {}, filter_mime |-> {}],
      [filter_repr_id |-> {"v1"}, filter_mime |-> {}],
      [filter_repr_id |-> {}, filter_mime |-> {"Video"}] }

CountChoices == { <<>> } \cup { <<n>> : n \in 1..MaxCount }

\* ------------------------------------------------------------------------
\* collect_items
\* ------------------------------------------------------------------------
InitResolve ==
    /\ DlIdle
    /\ TlIdle
    /\ manifest \in Manifests
    /\ args \in ArgChoices
    /\ countEnv \in CountChoices
    /\ triples = effective_base_urls_hierarchy(manifest, ManifestUrl)
    /\ idx = 1
    /\ rpc = "head"
    /\ registry = <<>>
    /\ log = <<>>

\* for rep, adp, eff in ...: if not matches_filters(rep, adp, args): continue
SelectPair ==
    /\ rpc = "head"
    /\ idx <= Len(triples)
    /\ IF matches_filters(triples[idx].rep, triples[idx].adp, args)
       THEN rpc' = "list" /\ UNCHANGED idx
       ELSE idx' = idx + 1 /\ UNCHANGED rpc
    /\ UNCHANGED <<dlVars, tlVars, manifest, args, countEnv, triples, registry, log>>

\* parse_segment_list(rep, adp, eff, items)
ParseSegmentList ==
    /\ rpc = "list"
    /\ LET tr == triples[idx]
           urls == parse_segment_list(tr.rep, tr.adp, tr.eff)
       IN  /\ registry' = AddAll(registry, urls)
           /\ log' = Append(log, [pair |-> idx, stage |-> "list", list |-> urls,
                                  tmplInit |-> <<>>, tmplMedia |-> <<>>,
                                  direct |-> <<>>])
    /\ rpc' = "template"
    /\ UNCHANGED <<dlVars, tlVars, manifest, args, countEnv, triples, idx>>

\* the call of parse_segment_template in collect_items' loop
template_result_OnlyWithoutList(tr) ==
    IF tr.rep.sl.kind # "none" \/ tr.adp.sl.kind # "none"
    THEN [raised |-> FALSE, init |-> <<>>, media |-> <<>>]
    ELSE parse_segment_template(tr.rep, tr.adp, tr.eff, countEnv)
template_result(tr) == parse_segment_template(tr.rep, tr.adp, tr.eff, countEnv)

\* parse_segment_template(rep, adp, eff, items); a RuntimeError ends the run
ParseSegmentTemplate ==
    /\ rpc = "template"
    /\ LET res == template_result(triples[idx])
       IN  /\ registry' = AddAll(registry, res.init \o res.media)
           /\ IF res.raised
              THEN rpc' = "fatal" /\ UNCHANGED log
              ELSE /\ rpc' = "direct"
                   /\ log' = [log EXCEPT ![Len(log)] =
                                [@ EXCEPT !.stage = "template",
                                          !.tmplInit = res.init,
                                          !.tmplMedia = res.media]]
    /\ UNCHANGED <<dlVars, tlVars, manifest, args, countEnv, triples, idx>>

\* if not items and os.path.splitext(path)[1]: add_item(items, eff)
DirectFile ==
    /\ rpc = "direct"
    /\ LET eff == triples[idx].eff
           urls == IF registry = <<>> /\ PathHasExt(eff) THEN <<eff>> ELSE <<>>
       IN  /\ registry' = AddAll(registry, urls)
           /\ log' = [log EXCEPT ![Len(log)] =
                        [@ EXCEPT !.stage = "end", !.direct = urls]]
    /\ idx' = idx + 1
    /\ rpc' = "head"
    /\ UNCHANGED <<dlVars, tlVars, manifest, args, countEnv, triples>>

\* return list(items.values())
Return ==
    /\ rpc = "head"
    /\ idx > Len(triples)
    /\ rpc' = "done"
    /\ UNCHANGED <<dlVars, tlVars, manifest, args, countEnv, triples, idx,
                   registry, log>>

NextResolve ==
    \/ SelectPair
    \/ ParseSegmentList
    \/ ParseSegmentTemplate
    \/ DirectFile
    \/ Return

SpecResolve == InitResolve /\ [][NextResolve]_vars

\* ------------------------------------------------------------------------
\* Properties of the resolver
\* ------------------------------------------------------------------------
RegisteredUrls == { registry[k].url : k \in DOMAIN registry }

Range(seq) == { seq[k] : k \in DOMAIN seq }

\* C5: two different URLs of the registry have different relative paths
\* (and every entry's relative path is the one derived from its URL).
C5_RelpathInjective ==
    \A i, j \in DOMAIN registry :
        /\ registry[i].relpath = ensure_relpath_from_url(registry[i].url)
        /\ registry[i].url # registry[j].url =>
              registry[i].relpath # registry[j].relpath

\* C6: once a selected pair is processed, if its representation has neither
\* a segment list nor a segment template and the path of its effective base
\* has an extension, the effective base is a registered item.
C6_DirectFileRegistered ==
    \A k \in DOMAIN log :
        LET tr == triples[log[k].pair]
        IN  ( /\ log[k].stage = "end"
              /\ tr.rep.sl.kind = "none" /\ tr.adp.sl.kind = "none"
              /\ tr.rep.st.kind = "none" /\ tr.adp.st.kind = "none"
              /\ PathHasExt(tr.eff) )
            => tr.eff \in RegisteredUrls

ListFound(tr) == FindOr(tr.rep.sl, tr.adp.sl).kind # "none"
TemplateFound(tr) == FindOr(tr.rep.st, tr.adp.st).kind # "none"

DeclaredTemplate(tr) == IF tr.rep.st.kind # "none" THEN tr.rep.st ELSE tr.adp.st

\* the URLs of `count` segments numbered from startNumber
NumberedUrls(st, tr, count) ==
    [n \in 1..count |->
        join_url(tr.eff, NameRef(
            Render(st.media, tr.rep,
                   <<(IF st.startNumber = <<>> THEN 1 ELSE st.startNumber[1]) + n - 1>>,
                   <<>>)))]

\* C9: for a selected pair whose template (on the representation or on its
\* adaptation set) has a media pattern and no timeline: without a segment
\* count resolution does not get past the template, and with one exactly the
\* `count` URLs numbered from startNumber are registered for the pair.
C9_NumberTemplate ==
    \A k \in DOMAIN log :
        LET tr == triples[log[k].pair]
            st == DeclaredTemplate(tr)
        IN  (st.kind # "none" /\ st.media # <<>> /\ st.timeline = <<>>) =>
              /\ countEnv = <<>> => log[k].stage = "list"
              /\ (countEnv # <<>> /\ log[k].stage \in {"template", "end"}) =>
                    log[k].tmplMedia = NumberedUrls(st, tr, countEnv[1])

====
